---- MODULE Spec2Model ----
(***************************************************************************)
(* A model of the rushdb Python client: the Transaction handle and its     *)
(* lifecycle, the transport (_make_request), the Resource API methods that *)
(* take a transaction, the target-reference normalisation used by          *)
(* attach/detach, the SearchResult returned by find, ping, and the Record  *)
(* wrapper.                                                                *)
(*                                                                         *)
(* Python values are encoded as follows.                                   *)
(*   None / Optional[x]   the empty sequence <<>> / the singleton <<x>>    *)
(*   a raised exception   a record [type, msg]; NoError when none is raised*)
(*   a string that is     a sequence of tokens, each a reserved character  *)
(*   taken apart          ("/", "?", "=", "&") or a run of other characters*)
(*   a request            [method, path, query, body, txid]: path is the   *)
(*                        sequence of quoted path segments of the URL;     *)
(*                        query, body and txid are Optional                *)
(*   a search query       a JSON value: a record [t, key, s, n, items]     *)
(***************************************************************************)
EXTENDS Integers, Sequences, FiniteSets, TLC

VARIABLES
    tx,      \* Optional[Transaction]: the handle the caller holds
    scope,   \* "outside" | "inside": whether the caller is in `with tx:`
    call,    \* the most recent call of the single caller and what it did
    pc,      \* concurrent callers: position of each caller inside commit()/rollback()
    op,      \* concurrent callers: which method each caller is running
    res,     \* concurrent callers: the exception each caller's call ended with
    wire,    \* concurrent callers: the requests handed to the transport so far
    arg,     \* Optional: the arguments the one call of a caller is given
    rec      \* Optional: a Record wrapper, the objects it refers to, the server's copy

vars == <<tx, scope, call, pc, op, res, wire, arg, rec>>

\* ------------------------------------------------------------------ bounds

\* Longest list passed as a target reference.
MaxLen == 2

\* Nesting depth of the where-clauses handed to find.
MaxDepth == 2

\* Longest page of a SearchResult.
MaxData == 5

\* Longest first segment of a record id.
MaxHead == 2

\* Longest second segment of a record id.
MaxTail == 5

\* ------------------------------------------------------------------ values

None == <<>>

Some(x) == <<x>>

\* The ttl sent when the caller gives none (api/transactions.py:80).
DefaultTtl == 5000

\* Transaction ids the server hands out (non-empty strings).
TxIds == {"tx1", "tx2"}

\* ttl arguments a caller passes to begin(): None or an integer.
Ttls == {None, Some(0), Some(1), Some(5000), Some(10000)}

\* Record ids used in target references.
Ids == {"a", "b"}

NoError == [type |-> "none", msg |-> ""]

AlreadyCompleted == [type |-> "RushDBError", msg |-> "Transaction already completed"]

\* What the HTTP exchange can do: a 2xx response with a JSON body, a non-2xx
\* response with a JSON or a non-JSON body, no connection, a 2xx response
\* whose body is not JSON.
Responses == {"ok", "http_json", "http_nonjson", "url_error", "bad_json"}

\* ------------------------------------------------------------------ Transaction

Transaction(transaction_id) ==
    [id |-> transaction_id, committed |-> FALSE, rolled_back |-> FALSE]

\* The three lifecycle states of the spec, read off the two flags.
State(h) ==
    IF h.committed THEN "COMMITTED"
    ELSE IF h.rolled_back THEN "ROLLED_BACK"
    ELSE "OPEN"

\* Mutants of `completed`: a guard that looks at one flag only.
completed_committed_only(h) == h.committed

completed_rolled_back_only(h) == h.rolled_back

\* `if self._committed or self._rolled_back: raise ...`, the guard that opens
\* both commit() and rollback().
completed(h) == h.committed \/ h.rolled_back

\* Python truthiness of an Optional[str].
Truthy(v) == v # None /\ v[1] # ""

\* Mutant of `build_transaction_header`: no header for a finalized handle.
build_transaction_header_open_only(transaction) ==
    IF transaction # None /\ ~completed(transaction[1]) /\ transaction[1].id # ""
    THEN Some(transaction[1].id)
    ELSE None

build_transaction_header(transaction) ==
    LET transaction_id == IF transaction = None THEN None
                          ELSE Some(transaction[1].id)
    IN  IF Truthy(transaction_id) THEN transaction_id ELSE None

\* ------------------------------------------------------------------ transport

\* The exception _make_request ends with for each outcome of the exchange.
RaisedBy(resp) ==
    CASE resp = "ok"           -> NoError
      [] resp = "http_json"    -> [type |-> "RushDBError", msg |-> "server message"]
      [] resp = "http_nonjson" -> [type |-> "JSONDecodeError", msg |-> "error body"]
      [] resp = "url_error"    -> [type |-> "RushDBError", msg |-> "Connection error"]
      [] resp = "bad_json"     -> [type |-> "RushDBError", msg |-> "Invalid JSON response"]

\* An f-string "/a/{b}/c": the path whose segments are the given runs.
RECURSIVE Slash(_)
Slash(segs) ==
    IF segs = <<>> THEN <<>> ELSE <<"/", Head(segs)>> \o Slash(Tail(segs))

\* The characters of a string, put together again.
RECURSIVE Cat(_)
Cat(s) == IF s = <<>> THEN "" ELSE Head(s) \o Cat(Tail(s))

\* s.split(sep): the pieces of s between the occurrences of sep.
RECURSIVE SplitFrom(_, _, _)
SplitFrom(s, sep, piece) ==
    IF s = <<>> THEN <<piece>>
    ELSE IF Head(s) = sep THEN <<piece>> \o SplitFrom(Tail(s), sep, <<>>)
    ELSE SplitFrom(Tail(s), sep, Append(piece, Head(s)))

Split(s, sep) == SplitFrom(s, sep, <<>>)

\* urllib.parse.quote(c, safe="") of one token.
QuoteToken(c) ==
    CASE c = "/" -> "%2F"
      [] c = "?" -> "%3F"
      [] c = "=" -> "%3D"
      [] c = "&" -> "%26"
      [] OTHER   -> c

\* urllib.parse.quote(part, safe="")
quote(part) == Cat([i \in 1..Len(part) |-> QuoteToken(part[i])])

\* [quote(part, safe="") for part in path.split("/") if part]
CleanPath(path) ==
    LET parts == SelectSeq(Split(path, "/"), LAMBDA part : Cat(part) # "")
    IN  [i \in 1..Len(parts) |-> quote(parts[i])]

\* urllib.parse.urlencode(params), params a sequence of <<key, value>> pairs.
RECURSIVE urlencode(_)
urlencode(params) ==
    IF params = <<>> THEN <<>>
    ELSE <<params[1][1], "=", params[1][2]>>
         \o (IF Len(params) > 1 THEN <<"&">> ELSE <<>>)
         \o urlencode(Tail(params))

\* _make_request(method, path, data, headers, params): the URL is
\* base_url + "/" + "/".join(path parts), then "?" + urlencode(params) if any.
make_request_params(method, path, data, headers, params, resp) ==
    LET rooted == IF path = <<>> \/ Head(path) # "/" THEN <<"/">> \o path ELSE path
    IN  [request |-> [method |-> method,
                      path   |-> CleanPath(rooted),
                      query  |-> IF params # <<>> THEN Some(urlencode(params)) ELSE None,
                      body   |-> data,
                      txid   |-> headers],
         raised  |-> RaisedBy(resp)]

\* _make_request called without params, as every Resource API calls it.
make_request(method, path, data, headers, resp) ==
    make_request_params(method, path, data, headers, <<>>, resp)

\* A call that sends its request once more when it fails.
Did_retrying(r) ==
    [sent |-> IF r.raised = NoError THEN <<r.request>> ELSE <<r.request, r.request>>,
     raised |-> r.raised]

\* What a call did: the requests it handed to the transport and the
\* exception it ended with.
Did(r) == [sent |-> <<r.request>>, raised |-> r.raised]

Fails(e) == [sent |-> <<>>, raised |-> e]

\* ------------------------------------------------------------------ TransactionsAPI

EmptyObject == <<>>

begin_ttl(ttl) == IF ttl # None /\ ttl[1] # 0 THEN ttl[1] ELSE DefaultTtl

begin(ttl, resp, id) ==
    LET r == make_request("POST", Slash(<<"tx">>), Some([ttl |-> begin_ttl(ttl)]), None, resp)
    IN  [tx |-> IF r.raised = NoError THEN Some(Transaction(id)) ELSE None,
         sent |-> <<r.request>>, raised |-> r.raised]

tx_commit(transaction_id, resp) ==
    make_request("POST", Slash(<<"tx", transaction_id, "commit">>), Some(EmptyObject), None, resp)

tx_rollback(transaction_id, resp) ==
    make_request("POST", Slash(<<"tx", transaction_id, "rollback">>), Some(EmptyObject), None, resp)

\* ------------------------------------------------------------------ commit / rollback

\* commit that sets its flag whether or not the request succeeds.
commit_flag_first(h, resp) ==
    IF completed(h)
    THEN [h |-> h, sent |-> <<>>, raised |-> AlreadyCompleted]
    ELSE LET r == tx_commit(h.id, resp)
         IN  [h |-> [h EXCEPT !.committed = TRUE],
              sent |-> <<r.request>>, raised |-> r.raised]

commit(h, resp) ==
    IF completed(h)
    THEN [h |-> h, sent |-> <<>>, raised |-> AlreadyCompleted]
    ELSE LET r == tx_commit(h.id, resp)
         IN  [h |-> IF r.raised = NoError THEN [h EXCEPT !.committed = TRUE] ELSE h,
              sent |-> <<r.request>>, raised |-> r.raised]

\* Mutant of `rollback`: the request goes out before the flags are tested.
rollback_request_first(h, resp) ==
    LET r == tx_rollback(h.id, resp)
    IN  IF completed(h)
        THEN [h |-> h, sent |-> <<r.request>>, raised |-> AlreadyCompleted]
        ELSE [h |-> IF r.raised = NoError THEN [h EXCEPT !.rolled_back = TRUE] ELSE h,
              sent |-> <<r.request>>, raised |-> r.raised]

\* rollback that does not test the flags.
rollback_unchecked(h, resp) ==
    LET r == tx_rollback(h.id, resp)
    IN  [h |-> IF r.raised = NoError THEN [h EXCEPT !.rolled_back = TRUE] ELSE h,
         sent |-> <<r.request>>, raised |-> r.raised]

rollback(h, resp) ==
    IF completed(h)
    THEN [h |-> h, sent |-> <<>>, raised |-> AlreadyCompleted]
    ELSE LET r == tx_rollback(h.id, resp)
         IN  [h |-> IF r.raised = NoError THEN [h EXCEPT !.rolled_back = TRUE] ELSE h,
              sent |-> <<r.request>>, raised |-> r.raised]

\* Mutant of `exit`: a normal exit never commits.
exit_no_autocommit(h, exc, resp) ==
    IF exc /\ ~h.rolled_back
    THEN rollback(h, resp)
    ELSE [h |-> h, sent |-> <<>>, raised |-> NoError]

\* Mutant of `exit`: an error exit commits instead of rolling back.
exit_commit_on_error(h, exc, resp) ==
    IF exc
    THEN IF ~h.rolled_back
         THEN commit(h, resp)
         ELSE [h |-> h, sent |-> <<>>, raised |-> NoError]
    ELSE IF ~h.committed /\ ~h.rolled_back
         THEN commit(h, resp)
         ELSE [h |-> h, sent |-> <<>>, raised |-> NoError]

\* __exit__(exc_type, ...): exc is TRUE when an error propagates out of the body.
exit(h, exc, resp) ==
    IF exc
    THEN IF ~h.rolled_back
         THEN rollback(h, resp)
         ELSE [h |-> h, sent |-> <<>>, raised |-> NoError]
    ELSE IF ~h.committed /\ ~h.rolled_back
         THEN commit(h, resp)
         ELSE [h |-> h, sent |-> <<>>, raised |-> NoError]

\* The error raised in the body of a `with` statement.
BodyError == [type |-> "Exception", msg |-> "raised in the with body"]

\* A `with` statement whose __exit__ asks for the error to be dropped.
with_exit_suppressing(h, exc, resp) ==
    LET r == exit(h, exc, resp)
    IN  [h |-> r.h, sent |-> r.sent, raised |-> r.raised, reaches |-> r.raised]

\* The end of `with transaction:`: __exit__ is called; what it raises reaches
\* the caller; otherwise, __exit__ returning None, the error of the body does.
with_exit(h, exc, resp) ==
    LET r == exit(h, exc, resp)
    IN  [h |-> r.h, sent |-> r.sent, raised |-> r.raised,
         reaches |-> IF r.raised # NoError THEN r.raised
                     ELSE IF exc THEN BodyError ELSE NoError]

\* ------------------------------------------------------------------ target references

\* A value passed as source or target of attach/detach:
\*   kind "str"     a string id (id = Some(s))
\*   kind "dict"    a map, with "__id" (id = Some(s)) or without (id = None)
\*   kind "record"  a Record, whose data has "__id" or not
\*   kind "int"     a bare integer
\*   kind "list"    a list of the above (items)
StrV(s) == [kind |-> "str", id |-> Some(s), items |-> <<>>]

DictV(id) == [kind |-> "dict", id |-> id, items |-> <<>>]

RecordV(id) == [kind |-> "record", id |-> id, items |-> <<>>]

IntV == [kind |-> "int", id |-> None, items |-> <<>>]

ListV(items) == [kind |-> "list", id |-> None, items |-> items]

Scalars ==
    {StrV(s) : s \in Ids} \cup {DictV(Some(s)) : s \in Ids} \cup {DictV(None)}
    \cup {RecordV(Some(s)) : s \in Ids} \cup {RecordV(None)} \cup {IntV}

Targets ==
    Scalars \cup {ListV(l) : l \in UNION {[1..n -> Scalars] : n \in 0..MaxLen}}

Sources == {StrV("s"), DictV(Some("s")), RecordV(Some("s")), IntV}

ValueError == [type |-> "ValueError", msg |-> "Invalid target format"]

IndexError == [type |-> "IndexError", msg |-> "list index out of range"]

AttributeError == [type |-> "AttributeError", msg |-> "data"]

\* One entry of the list comprehension: t.get("__id", "") for a dict, "" otherwise.
extract_item(t) ==
    IF t.kind = "dict" THEN (IF t.id # None THEN t.id[1] ELSE "") ELSE ""

_extract_target_ids(target) ==
    IF target.kind = "str"
    THEN [ids |-> <<target.id[1]>>, raised |-> NoError]
    ELSE IF target.kind = "list"
    THEN [ids |-> [i \in 1..Len(target.items) |-> extract_item(target.items[i])],
          raised |-> NoError]
    ELSE IF target.kind = "record" /\ target.id # None
    THEN [ids |-> <<target.id[1]>>, raised |-> NoError]
    ELSE IF target.kind = "dict" /\ target.id # None
    THEN [ids |-> <<target.id[1]>>, raised |-> NoError]
    ELSE [ids |-> <<>>, raised |-> ValueError]

\* The body shared by attach and detach, which differ in the HTTP method only.
relate(method, source, target, transaction, resp) ==
    LET headers == build_transaction_header(transaction)
        s == _extract_target_ids(source)
        t == _extract_target_ids(target)
    IN  IF s.raised # NoError THEN Fails(s.raised)
        ELSE IF Len(s.ids) = 0 THEN Fails(IndexError)
        ELSE IF t.raised # NoError THEN Fails(t.raised)
        ELSE Did(make_request(method, Slash(<<"relationships", s.ids[1]>>),
                              Some([targetIds |-> t.ids]), headers, resp))

attach(source, target, transaction, resp) ==
    relate("POST", source, target, transaction, resp)

detach(source, target, transaction, resp) ==
    relate("PUT", source, target, transaction, resp)

\* ------------------------------------------------------------------ JSON values

\* A JSON value: null, a string, a number, an array of values or an object,
\* whose members are values carrying their key, in insertion order.
JNull == [t |-> "null", key |-> "", s |-> "", n |-> 0, items |-> <<>>]

JStr(s) == [t |-> "str", key |-> "", s |-> s, n |-> 0, items |-> <<>>]

JNum(n) == [t |-> "num", key |-> "", s |-> "", n |-> n, items |-> <<>>]

JArr(items) == [t |-> "arr", key |-> "", s |-> "", n |-> 0, items |-> items]

JObj(members) == [t |-> "obj", key |-> "", s |-> "", n |-> 0, items |-> members]

\* The member key: v of an object.
K(key, v) == [v EXCEPT !.key = key]

\* dict.get(key)
Get(obj, key) ==
    LET hits == SelectSeq(obj.items, LAMBDA m : m.key = key)
    IN  IF hits = <<>> THEN None ELSE Some(K("", hits[1]))

\* The tokens of a JSON text.
TPunct(c) == [k |-> "punct", s |-> c, n |-> 0]

TStr(s) == [k |-> "str", s |-> s, n |-> 0]

TNum(n) == [k |-> "num", s |-> "", n |-> n]

\* json.dumps(data): the JSON text of a value, members and elements in order.
RECURSIVE json_dumps(_), DumpItems(_, _)
DumpItems(items, keyed) ==
    IF items = <<>> THEN <<>>
    ELSE (IF keyed THEN <<TStr(items[1].key), TPunct(":")>> ELSE <<>>)
         \o json_dumps(items[1])
         \o (IF Len(items) > 1 THEN <<TPunct(",")>> ELSE <<>>)
         \o DumpItems(Tail(items), keyed)

json_dumps(v) ==
    CASE v.t = "null" -> <<TPunct("null")>>
      [] v.t = "str"  -> <<TStr(v.s)>>
      [] v.t = "num"  -> <<TNum(v.n)>>
      [] v.t = "arr"  -> <<TPunct("[")>> \o DumpItems(v.items, FALSE) \o <<TPunct("]")>>
      [] v.t = "obj"  -> <<TPunct("{")>> \o DumpItems(v.items, TRUE) \o <<TPunct("}")>>

\* json.loads(text), as the receiver of a request reads its body: the value
\* read from the front of the text, and the text that follows it.
RECURSIVE ParseValue(_), ParseItems(_, _, _)
ParseItems(text, keyed, acc) ==
    LET c == Head(text)
    IN  IF c.k = "punct" /\ c.s \in {"]", "}"}
        THEN [val |-> IF keyed THEN JObj(acc) ELSE JArr(acc), rest |-> Tail(text)]
        ELSE IF c.k = "punct" /\ c.s = ","
        THEN ParseItems(Tail(text), keyed, acc)
        ELSE IF keyed
        THEN LET r == ParseValue(SubSeq(text, 3, Len(text)))
             IN  ParseItems(r.rest, keyed, Append(acc, K(c.s, r.val)))
        ELSE LET r == ParseValue(text)
             IN  ParseItems(r.rest, keyed, Append(acc, r.val))

ParseValue(text) ==
    LET c == Head(text)
    IN  CASE c.k = "str" -> [val |-> JStr(c.s), rest |-> Tail(text)]
          [] c.k = "num" -> [val |-> JNum(c.n), rest |-> Tail(text)]
          [] c.k = "punct" /\ c.s = "null" -> [val |-> JNull, rest |-> Tail(text)]
          [] c.k = "punct" /\ c.s = "[" -> ParseItems(Tail(text), FALSE, <<>>)
          [] c.k = "punct" /\ c.s = "{" -> ParseItems(Tail(text), TRUE, <<>>)

json_loads(text) == ParseValue(text).val

\* ------------------------------------------------------------------ SearchResult

\* SearchResult.__init__(data, total, search_query)
SearchResult(data, total, search_query) ==
    [data  |-> data,
     total |-> IF total # None /\ total[1] # 0 THEN total[1] ELSE Len(data),
     search_query |-> IF search_query # None /\ search_query[1].items # <<>>
                      THEN search_query[1] ELSE JObj(<<>>)]

\* SearchResult.skip
skip(result) ==
    LET v == Get(result.search_query, "skip")
    IN  IF v # None /\ v[1].t = "num" /\ v[1].n # 0 THEN v[1].n ELSE 0

\* SearchResult.limit
limit(result) ==
    LET v == Get(result.search_query, "limit")
    IN  IF v = None \/ v[1].t = "null" THEN None ELSE Some(v[1].n)

has_more_ignoring_skip(result) == result.total > Len(result.data)

\* SearchResult.has_more
has_more(result) == result.total > skip(result) + Len(result.data)

\* ------------------------------------------------------------------ Resource APIs

\* Arguments that play no part in the properties checked here are fixed.
RecordId == "r1"

PropertyId == "p1"

Data == [name |-> "v"]

\* An options dict holds each of its two keys or lacks it.
DefaultOptions == [returnResult |-> Some(TRUE), suggestTypes |-> Some(TRUE)]

\* bool(options): None and the empty dict are falsy.
OptionsGiven(options) ==
    options # None /\ (options[1].returnResult # None \/ options[1].suggestTypes # None)

\* options or {"returnResult": True, "suggestTypes": True}
options_or_default(options) ==
    IF OptionsGiven(options) THEN options[1] ELSE DefaultOptions

\* search_query or {}
query_or_empty(search_query) ==
    IF search_query # None /\ search_query[1].items # <<>>
    THEN search_query[1] ELSE JObj(<<>>)

\* A string in which no reserved character occurs.
Text(s) == <<s>>

\* set(record_id, data, transaction); record_id is a string, taken apart.
records_set(record_id, data, transaction, resp) ==
    Did(make_request("PUT", Slash(<<"records">>) \o <<"/">> \o record_id, Some(data),
                     build_transaction_header(transaction), resp))

\* update(record_id, data, transaction)
records_update(record_id, data, transaction, resp) ==
    Did(make_request("PATCH", Slash(<<"records">>) \o <<"/">> \o record_id, Some(data),
                     build_transaction_header(transaction), resp))

records_create(label, data, options, transaction, resp) ==
    Did(make_request("POST", Slash(<<"records">>),
                     Some([label |-> label, data |-> data, options |-> options_or_default(options)]),
                     build_transaction_header(transaction), resp))

records_create_many(label, data, options, transaction, resp) ==
    Did(make_request("POST", Slash(<<"records", "import", "json">>),
                     Some([label |-> label, data |-> data, options |-> options_or_default(options)]),
                     build_transaction_header(transaction), resp))

records_import_csv(label, data, options, transaction, resp) ==
    Did(make_request("POST", Slash(<<"records", "import", "csv">>),
                     Some([label |-> label, data |-> data, options |-> options_or_default(options)]),
                     build_transaction_header(transaction), resp))

\* delete that turns down a call without a filter.
records_delete_guarded(search_query, transaction, resp) ==
    IF search_query = None \/ search_query[1].items = <<>>
    THEN Fails([type |-> "ValueError", msg |-> "search_query"])
    ELSE Did(make_request("POST", Slash(<<"records", "delete">>), Some(search_query[1]),
                          build_transaction_header(transaction), resp))

\* delete(search_query, transaction)
records_delete(search_query, transaction, resp) ==
    Did(make_request("POST", Slash(<<"records", "delete">>),
                     Some(query_or_empty(search_query)),
                     build_transaction_header(transaction), resp))

\* delete_by_id that puts no more ids in the filter than its limit.
records_delete_by_id_capped(id_or_ids, transaction, resp) ==
    IF id_or_ids.kind = "list"
    THEN Did(make_request("POST", Slash(<<"records", "delete">>),
                          Some([limit |-> 1000,
                                where |-> ("$id" :> ("$in" :>
                                    SubSeq(id_or_ids.items, 1,
                                           IF Len(id_or_ids.items) < 1000
                                           THEN Len(id_or_ids.items) ELSE 1000)))]),
                          build_transaction_header(transaction), resp))
    ELSE Did(make_request("DELETE", Slash(<<"records">>) \o <<"/">> \o id_or_ids.id[1], None,
                          build_transaction_header(transaction), resp))

\* delete_by_id(id_or_ids, transaction): a list, of whatever length, goes into
\* one filtered delete; a single id into one DELETE.
records_delete_by_id(id_or_ids, transaction, resp) ==
    IF id_or_ids.kind = "list"
    THEN Did(make_request("POST", Slash(<<"records", "delete">>),
                          Some([limit |-> 1000,
                                where |-> ("$id" :> ("$in" :> id_or_ids.items))]),
                          build_transaction_header(transaction), resp))
    ELSE Did(make_request("DELETE", Slash(<<"records">>) \o <<"/">> \o id_or_ids.id[1], None,
                          build_transaction_header(transaction), resp))

\* Record(client, data) raises ValueError unless data is a dict.
Wrappable(items) == \A i \in 1..Len(items) : items[i].kind = "dict"

\* find without its try/except: the failure of the request reaches the caller.
records_find_propagating(search_query, record_id, transaction, resp, payload) ==
    LET r == make_request("POST", Slash(<<"records", "search">>),
                          Some(query_or_empty(search_query)),
                          build_transaction_header(transaction), resp)
    IN  [sent |-> <<r.request>>, raised |-> r.raised, text |-> <<>>,
         out |-> SearchResult(<<>>, Some(0), None)]

\* find that posts an empty query whatever it is given.
records_find_empty_body(search_query, record_id, transaction, resp, payload) ==
    LET r == make_request("POST", Slash(<<"records", "search">>), Some(JObj(<<>>)),
                          build_transaction_header(transaction), resp)
    IN  [sent |-> <<r.request>>, raised |-> NoError, text |-> json_dumps(JObj(<<>>)),
         out |-> SearchResult(<<>>, Some(0), None)]

\* find(search_query, record_id, transaction). payload is the decoded response
\* of a request that succeeds: its "data" list and its "total", each present or
\* not. Every exception is swallowed and an empty result returned. text is the
\* JSON text _make_request puts on the wire as the body.
records_find(search_query, record_id, transaction, resp, payload) ==
    LET path == IF Truthy(record_id)
                THEN Slash(<<"records", record_id[1], "search">>)
                ELSE Slash(<<"records", "search">>)
        data == query_or_empty(search_query)
        r    == make_request("POST", path, Some(data),
                             build_transaction_header(transaction), resp)
        rows == IF payload.data = None THEN <<>> ELSE payload.data[1]
        total == IF payload.total = None THEN Some(0) ELSE payload.total
    IN  [sent |-> <<r.request>>,
         raised |-> NoError,
         text |-> json_dumps(data),
         out |-> IF r.raised = NoError /\ Wrappable(rows)
                 THEN SearchResult([i \in 1..Len(rows) |-> RecordV(rows[i].id)],
                                   total, search_query)
                 ELSE SearchResult(<<>>, Some(0), None)]

properties_find(transaction, resp) ==
    Did(make_request("POST", Slash(<<"properties", "search">>), Some(EmptyObject),
                     build_transaction_header(transaction), resp))

properties_find_by_id(property_id, transaction, resp) ==
    Did(make_request("GET", Slash(<<"properties", property_id>>), None,
                     build_transaction_header(transaction), resp))

properties_delete(property_id, transaction, resp) ==
    Did(make_request("DELETE", Slash(<<"properties", property_id>>), None,
                     build_transaction_header(transaction), resp))

properties_values(property_id, transaction, resp) ==
    Did(make_request("POST", Slash(<<"properties", property_id, "values">>), Some(EmptyObject),
                     build_transaction_header(transaction), resp))

labels_find(transaction, resp) ==
    Did(make_request("POST", Slash(<<"labels", "search">>), Some(EmptyObject),
                     build_transaction_header(transaction), resp))

query_raw(body, transaction, resp) ==
    Did(make_request("POST", Slash(<<"query", "raw">>), Some(body),
                     build_transaction_header(transaction), resp))

\* str(n) for the page numbers.
str(n) == ToString(n)

\* The awaited call find(search_query, pagination, transaction), with no
\* search_query. pagination holds each of "limit" and "skip", or lacks it (or
\* holds None: the code reads both the same way). The query string is made
\* part of the path handed to _make_request. On a decoded response the method
\* then reads response.data, which a dict does not have.
relationships_find(pagination, transaction, resp) ==
    LET query_params ==
            IF pagination = None THEN <<>>
            ELSE (IF pagination[1].limit # None
                  THEN <<<<"limit", str(pagination[1].limit[1])>>>> ELSE <<>>)
                 \o (IF pagination[1].skip # None
                     THEN <<<<"skip", str(pagination[1].skip[1])>>>> ELSE <<>>)
        query_string == IF query_params # <<>>
                        THEN <<"?">> \o urlencode(query_params) ELSE <<>>
        path == Slash(<<"relationships", "search">>) \o query_string
        r == make_request("POST", path, Some(EmptyObject),
                          build_transaction_header(transaction), resp)
    IN  [sent |-> <<r.request>>,
         raised |-> IF r.raised = NoError THEN AttributeError ELSE r.raised]

\* ping(): True when GET /settings succeeds, False on a RushDBError.
ping(resp) ==
    LET r == make_request("GET", Slash(<<"settings">>), None, None, resp)
    IN  [sent |-> <<r.request>>,
         raised |-> IF r.raised.type = "RushDBError" THEN NoError ELSE r.raised,
         out |-> IF r.raised = NoError THEN Some(TRUE)
                 ELSE IF r.raised.type = "RushDBError" THEN Some(FALSE) ELSE None]

\* Every Resource API method that takes a transaction argument.
Methods ==
    {"records.set", "records.update", "records.create", "records.create_many",
     "records.attach", "records.detach", "records.delete", "records.delete_by_id",
     "records.delete_by_ids", "records.find", "records.import_csv",
     "properties.find", "properties.find_by_id", "properties.delete",
     "properties.values", "labels.find", "query.raw", "relationships.find"}

Invoke(m, transaction, resp) ==
    CASE m = "records.set"           -> records_set(Text(RecordId), Data, transaction, resp)
      [] m = "records.update"        -> records_update(Text(RecordId), Data, transaction, resp)
      [] m = "records.create"        -> records_create("L", Data, None, transaction, resp)
      [] m = "records.create_many"   -> records_create_many("L", Data, None, transaction, resp)
      [] m = "records.attach"        -> attach(StrV("s"), StrV("a"), transaction, resp)
      [] m = "records.detach"        -> detach(StrV("s"), StrV("a"), transaction, resp)
      [] m = "records.delete"        -> records_delete(None, transaction, resp)
      [] m = "records.delete_by_id"  -> records_delete_by_id(StrV(Text(RecordId)), transaction, resp)
      [] m = "records.delete_by_ids" ->
            records_delete_by_id(ListV(<<StrV("a"), StrV("b")>>), transaction, resp)
      [] m = "records.find"          ->
            records_find(None, None, transaction, resp, [data |-> None, total |-> None])
      [] m = "records.import_csv"    -> records_import_csv("L", Data, None, transaction, resp)
      [] m = "properties.find"       -> properties_find(transaction, resp)
      [] m = "properties.find_by_id" -> properties_find_by_id(PropertyId, transaction, resp)
      [] m = "properties.delete"     -> properties_delete(PropertyId, transaction, resp)
      [] m = "properties.values"     -> properties_values(PropertyId, transaction, resp)
      [] m = "labels.find"           -> labels_find(transaction, resp)
      [] m = "query.raw"             -> query_raw(Data, transaction, resp)
      [] m = "relationships.find"    -> relationships_find(None, transaction, resp)

\* ------------------------------------------------------------------ single caller

Init ==
    /\ tx = None
    /\ scope = "outside"
    /\ call = [op |-> "init", in |-> None, pre |-> None, sent |-> <<>>, raised |-> NoError]
    /\ pc = <<>>
    /\ op = <<>>
    /\ res = <<>>
    /\ wire = <<>>
    /\ rec = None
    /\ arg = None

Begin ==
    /\ scope = "outside"
    /\ \E ttl \in Ttls, resp \in Responses, id \in TxIds :
         LET r == begin(ttl, resp, id)
         IN  /\ tx' = IF r.raised = NoError THEN r.tx ELSE tx
             /\ call' = [op |-> "begin", in |-> ttl, pre |-> tx,
                         sent |-> r.sent, raised |-> r.raised]
    /\ UNCHANGED <<scope, pc, op, res, wire, arg, rec>>

Commit ==
    /\ tx # None
    /\ \E resp \in Responses :
         LET r == commit(tx[1], resp)
         IN  /\ tx' = Some(r.h)
             /\ call' = [op |-> "commit", in |-> None, pre |-> tx,
                         sent |-> r.sent, raised |-> r.raised]
    /\ UNCHANGED <<scope, pc, op, res, wire, arg, rec>>

Rollback ==
    /\ tx # None
    /\ \E resp \in Responses :
         LET r == rollback(tx[1], resp)
         IN  /\ tx' = Some(r.h)
             /\ call' = [op |-> "rollback", in |-> None, pre |-> tx,
                         sent |-> r.sent, raised |-> r.raised]
    /\ UNCHANGED <<scope, pc, op, res, wire, arg, rec>>

Enter ==
    /\ tx # None
    /\ scope = "outside"
    /\ scope' = "inside"
    /\ call' = [op |-> "enter", in |-> None, pre |-> tx, sent |-> <<>>, raised |-> NoError]
    /\ UNCHANGED <<tx, pc, op, res, wire, arg, rec>>

Exit ==
    /\ scope = "inside"
    /\ scope' = "outside"
    /\ \E exc \in BOOLEAN, resp \in Responses :
         LET r == with_exit(tx[1], exc, resp)
         IN  /\ tx' = Some(r.h)
             /\ call' = [op |-> "exit", in |-> Some(exc), pre |-> tx,
                         sent |-> r.sent, raised |-> r.raised, out |-> r.reaches]
    /\ UNCHANGED <<pc, op, res, wire, arg, rec>>

\* A Resource API call, with the caller's handle as its transaction or with none.
Api ==
    /\ \E m \in Methods, transaction \in {None, tx}, resp \in Responses :
         LET r == Invoke(m, transaction, resp)
         IN  call' = [op |-> "api", in |-> Some([method |-> m, transaction |-> transaction]),
                      pre |-> tx, sent |-> r.sent, raised |-> r.raised]
    /\ UNCHANGED <<tx, scope, pc, op, res, wire, arg, rec>>

Next ==
    \/ Begin
    \/ Commit
    \/ Rollback
    \/ Enter
    \/ Exit
    \/ Api

Spec == Init /\ [][Next]_vars

\* ------------------------------------------------------------------ attach / detach

\* A caller holding an OPEN handle is about to relate a source to a target.
InitTargets ==
    /\ tx = Some(Transaction("tx1"))
    /\ scope = "outside"
    /\ call = [op |-> "init", in |-> None, pre |-> None, sent |-> <<>>, raised |-> NoError]
    /\ pc = <<>>
    /\ op = <<>>
    /\ res = <<>>
    /\ wire = <<>>
    /\ rec = None
    /\ arg \in {Some([source |-> s, target |-> t]) : s \in Sources, t \in Targets}

Attach ==
    /\ call.op = "init"
    /\ \E transaction \in {None, tx}, resp \in Responses :
         LET r == attach(arg[1].source, arg[1].target, transaction, resp)
         IN  call' = [op |-> "attach", in |-> Some(transaction), pre |-> tx,
                      sent |-> r.sent, raised |-> r.raised]
    /\ UNCHANGED <<tx, scope, pc, op, res, wire, arg, rec>>

Detach ==
    /\ call.op = "init"
    /\ \E transaction \in {None, tx}, resp \in Responses :
         LET r == detach(arg[1].source, arg[1].target, transaction, resp)
         IN  call' = [op |-> "detach", in |-> Some(transaction), pre |-> tx,
                      sent |-> r.sent, raised |-> r.raised]
    /\ UNCHANGED <<tx, scope, pc, op, res, wire, arg, rec>>

NextTargets ==
    \/ Attach
    \/ Detach

SpecTargets == InitTargets /\ [][NextTargets]_vars

\* ------------------------------------------------------------------ Record: timestamp, equality

MissingId == [type |-> "ValueError", msg |-> "Record ID is missing or None"]

\* The hexadecimal digits, those of value 10 to 15 in either case.
HexLower == <<"0", "1", "2", "3", "4", "5", "6", "7", "8", "9", "a", "b", "c", "d", "e", "f">>

HexUpper == <<"0", "1", "2", "3", "4", "5", "6", "7", "8", "9", "A", "B", "C", "D", "E", "F">>

HexVal(c) == CHOOSE v \in 0..15 : HexLower[v + 1] = c \/ HexUpper[v + 1] = c

\* int(s, 16) of a non-empty string of hexadecimal digits.
RECURSIVE int16(_)
int16(s) ==
    IF Len(s) = 1 THEN HexVal(s[1])
    ELSE 16 * int16(SubSeq(s, 1, Len(s) - 1)) + HexVal(s[Len(s)])

\* s[:n]
Prefix(s, n) == SubSeq(s, 1, IF Len(s) < n THEN Len(s) ELSE n)

\* timestamp with the whole second segment in place of its first four digits.
timestamp_whole_segment(id) ==
    IF id = None THEN [value |-> 0, raised |-> MissingId]
    ELSE LET parts == Split(id[1], "-")
         IN  IF Len(parts) < 2 THEN [value |-> 0, raised |-> IndexError]
             ELSE LET high_bits_hex == parts[1] \o parts[2]
                  IN  IF high_bits_hex = <<>>
                      THEN [value |-> 0,
                            raised |-> [type |-> "ValueError", msg |-> "invalid literal"]]
                      ELSE [value |-> int16(high_bits_hex), raised |-> NoError]

\* Record.timestamp: id is the "__id" of the data, a string taken apart into
\* its digits and hyphens, or None.
timestamp(id) ==
    IF id = None THEN [value |-> 0, raised |-> MissingId]
    ELSE LET parts == Split(id[1], "-")
         IN  IF Len(parts) < 2 THEN [value |-> 0, raised |-> IndexError]
             ELSE LET high_bits_hex == parts[1] \o Prefix(parts[2], 4)
                  IN  IF high_bits_hex = <<>>
                      THEN [value |-> 0,
                            raised |-> [type |-> "ValueError", msg |-> "invalid literal"]]
                      ELSE [value |-> int16(high_bits_hex), raised |-> NoError]

\* hash(self.id), or hash(id(self)) when the Record has no id. self is a
\* Record with the identity (obj) of the wrapper object.
record_hash(self) ==
    IF self.v.id # None THEN [by |-> "id", of |-> self.v.id[1]]
    ELSE [by |-> "object", of |-> self.obj]

\* Record.__eq__(other)
record_eq(self, other) ==
    IF other.v.kind # "record" THEN FALSE
    ELSE IF self.v.id = None \/ other.v.id = None THEN FALSE
    ELSE self.v.id = other.v.id

\* ------------------------------------------------------------------ one call, inputs drawn

\* Where-clauses of the grammar: implicit equality, operator objects, several
\* keys in one object; then $and / $or sequences and relationship-label keys
\* around them, nested.
Leaves ==
    {JObj(<<K("name", JStr("x"))>>),
     JObj(<<K("age", JObj(<<K("$gt", JNum(1))>>))>>),
     JObj(<<K("name", JStr("x")),
            K("age", JObj(<<K("$in", JArr(<<JNum(2), JNum(1)>>))>>))>>)}

RECURSIVE Wheres(_)
Wheres(depth) ==
    IF depth = 0 THEN Leaves
    ELSE LET W == Wheres(depth - 1)
         IN  W \cup {JObj(<<K("$and", JArr(<<w, l>>))>>) : w \in W, l \in Leaves}
               \cup {JObj(<<K("$or", JArr(<<l, w>>))>>) : w \in W, l \in Leaves}
               \cup {JObj(<<K("COMPANY", w)>>) : w \in W}

WhereQueries ==
    {JObj(<<K("where", w)>>) : w \in Wheres(MaxDepth)}
    \cup {JObj(<<K("labels", JArr(<<JStr("B"), JStr("A")>>)), K("where", w),
                 K("orderBy", JObj(<<K("name", JStr("asc"))>>))>>) : w \in Leaves}

\* Queries that page: "skip" and "limit", each held or lacking.
PageQuery(s, l) ==
    JObj((IF s # None THEN <<K("skip", s[1])>> ELSE <<>>)
         \o (IF l # None THEN <<K("limit", l[1])>> ELSE <<>>))

PageQueries ==
    {PageQuery(s, l) : s \in {None, Some(JNull), Some(JNum(0)), Some(JNum(1)), Some(JNum(10))},
                       l \in {None, Some(JNull), Some(JNum(5))}}

\* Decoded responses of a search: "data" and "total", each held or lacking.
Rows == {<<>>, <<DictV(Some("a"))>>, <<DictV(Some("a")), DictV(Some("b"))>>,
         <<DictV(Some("a")), IntV>>}

Payloads ==
    [data : {None} \cup {Some(rows) : rows \in Rows},
     total : {None, Some(0), Some(2), Some(50)}]

FindInputs ==
    {[op |-> "find", search_query |-> Some(q),
      payload |-> [data |-> Some(<<DictV(Some("a"))>>), total |-> Some(1)]] :
        q \in WhereQueries}
    \cup {[op |-> "find", search_query |-> q, payload |-> p] :
            q \in {None} \cup {Some(x) : x \in PageQueries}, p \in Payloads}

\* A page of n records.
Page(n) == [i \in 1..n |-> RecordV(Some("a"))]

ResultInputs ==
    {[op |-> "result", data |-> Page(n), total |-> t, search_query |-> q] :
        n \in 0..MaxData,
        t \in {None, Some(0), Some(1), Some(3), Some(50)},
        q \in {None} \cup {Some(x) : x \in PageQueries}}

\* A list of n ids.
IdList(n) == [i \in 1..n |-> StrV(str(i))]

DeleteInputs ==
    {[op |-> "delete_by_id", id_or_ids |-> StrV(Text(id))] : id \in Ids}
    \cup {[op |-> "delete_by_id", id_or_ids |-> ListV(IdList(n))] :
            n \in {0, 1, 2, 999, 1000, 1001, 1500}}

OptionsInputs ==
    {[op |-> m, options |-> o] :
        m \in {"create", "create_many", "import_csv"},
        o \in {None} \cup {Some(x) : x \in [returnResult : {None, Some(TRUE), Some(FALSE)},
                                            suggestTypes : {None, Some(TRUE), Some(FALSE)}]}}

PaginationInputs ==
    {[op |-> "relationships.find", pagination |-> p] :
        p \in {None} \cup {Some(x) : x \in [limit : {None, Some(10), Some(1000)},
                                            skip : {None, Some(0), Some(20)}]}}

RequestInputs ==
    {[op |-> "request", method |-> m, path |-> p, params |-> q] :
        m \in {"GET", "POST"},
        p \in {Slash(<<"settings">>), <<"records">>, <<"/", "/", "a", "/">>, <<>>},
        q \in {<<>>, <<<<"limit", "10">>>>, <<<<"limit", "10">>, <<"skip", "0">>>>}}

\* Strings of one to n of the digits.
RECURSIVE HexStrings(_)
HexStrings(n) ==
    IF n = 0 THEN {}
    ELSE {<<d>> : d \in {"0", "a", "F"}}
         \cup {Append(h, d) : h \in HexStrings(n - 1), d \in {"0", "a", "F"}}

\* Record ids of hyphen-separated segments of hexadecimal digits.
TimestampInputs ==
    {[op |-> "timestamp", head |-> h, tail |-> t, id |-> Some(h \o <<"-">> \o t \o rest)] :
        h \in HexStrings(MaxHead), t \in HexStrings(MaxTail),
        rest \in {<<>>, <<"-", "7", "0", "0", "0">>}}

\* Two objects to compare: Record wrappers, each with its identity, or a
\* Record and something that is not one.
Wrappers ==
    {[obj |-> o, v |-> v] : o \in {"o1", "o2"},
                            v \in {RecordV(None), RecordV(Some("a")), RecordV(Some("b"))}}

EqualityInputs ==
    {[op |-> "eq", self |-> a, other |-> b] :
        a \in Wrappers,
        b \in Wrappers \cup {[obj |-> "o3", v |-> v] : v \in {StrV("a"), DictV(Some("a")), IntV}}}
    \ {i \in [op : {"eq"}, self : Wrappers, other : Wrappers] :
          i.self.obj = i.other.obj /\ i.self.v # i.other.v}

\* Filters handed to delete: none, the empty one, a where-clause.
DeleteQueryInputs ==
    {[op |-> "delete", search_query |-> q] :
        q \in {None, Some(JObj(<<>>))} \cup {Some(JObj(<<K("where", w)>>)) : w \in Leaves}}

\* Single ids handed to set, update and delete_by_id: plain, empty, and with
\* reserved characters.
PerRecordInputs ==
    {[op |-> "per_record", method |-> m, id |-> i] :
        m \in {"set", "update", "delete_by_id"},
        i \in {Text("a"), <<>>, <<"a", "/", "b">>, <<"/">>, <<"a", "/">>, <<"a", "?", "b">>}}

\* A caller holding an OPEN handle is about to make one call.
InitCalls ==
    /\ tx = Some(Transaction("tx1"))
    /\ scope = "outside"
    /\ call = [op |-> "init", in |-> None, pre |-> None, sent |-> <<>>, raised |-> NoError]
    /\ pc = <<>>
    /\ op = <<>>
    /\ res = <<>>
    /\ wire = <<>>
    /\ rec = None
    /\ \/ arg \in {Some(i) : i \in FindInputs}
       \/ arg \in {Some(i) : i \in ResultInputs}
       \/ arg \in {Some(i) : i \in DeleteInputs}
       \/ arg \in {Some(i) : i \in OptionsInputs}
       \/ arg \in {Some(i) : i \in PaginationInputs}
       \/ arg \in {Some(i) : i \in RequestInputs}
       \/ arg = Some([op |-> "ping"])
       \/ arg \in {Some(i) : i \in TimestampInputs}
       \/ arg \in {Some(i) : i \in EqualityInputs}
       \/ arg \in {Some(i) : i \in DeleteQueryInputs}
       \/ arg \in {Some(i) : i \in PerRecordInputs}

\* SearchResult.get_page_info(), with the result it is read from.
get_page_info(result) ==
    [result   |-> result,
     total    |-> result.total,
     loaded   |-> Len(result.data),
     has_more |-> has_more(result),
     skip     |-> skip(result),
     limit    |-> limit(result)]

Find ==
    /\ call.op = "init"
    /\ arg[1].op = "find"
    /\ \E record_id \in {None, Some(RecordId)}, transaction \in {None, tx},
          resp \in Responses :
         LET r == records_find(arg[1].search_query, record_id, transaction, resp,
                               arg[1].payload)
         IN  call' = [op |-> "find",
                      in |-> Some([record_id |-> record_id, transaction |-> transaction,
                                   resp |-> resp]),
                      pre |-> tx, sent |-> r.sent, raised |-> r.raised,
                      text |-> r.text, out |-> get_page_info(r.out)]
    /\ UNCHANGED <<tx, scope, pc, op, res, wire, arg, rec>>

NewResult ==
    /\ call.op = "init"
    /\ arg[1].op = "result"
    /\ call' = [op |-> "result", in |-> None, pre |-> tx, sent |-> <<>>,
                raised |-> NoError,
                out |-> get_page_info(SearchResult(arg[1].data, arg[1].total,
                                                   arg[1].search_query))]
    /\ UNCHANGED <<tx, scope, pc, op, res, wire, arg, rec>>

DeleteById ==
    /\ call.op = "init"
    /\ arg[1].op = "delete_by_id"
    /\ \E transaction \in {None, tx}, resp \in Responses :
         LET r == records_delete_by_id(arg[1].id_or_ids, transaction, resp)
         IN  call' = [op |-> "delete_by_id",
                      in |-> Some([transaction |-> transaction, resp |-> resp]),
                      pre |-> tx, sent |-> r.sent, raised |-> r.raised]
    /\ UNCHANGED <<tx, scope, pc, op, res, wire, arg, rec>>

Create ==
    /\ call.op = "init"
    /\ arg[1].op \in {"create", "create_many", "import_csv"}
    /\ \E transaction \in {None, tx}, resp \in Responses :
         LET r == CASE arg[1].op = "create" ->
                         records_create("L", Data, arg[1].options, transaction, resp)
                    [] arg[1].op = "create_many" ->
                         records_create_many("L", Data, arg[1].options, transaction, resp)
                    [] arg[1].op = "import_csv" ->
                         records_import_csv("L", Data, arg[1].options, transaction, resp)
         IN  call' = [op |-> arg[1].op,
                      in |-> Some([transaction |-> transaction, resp |-> resp]),
                      pre |-> tx, sent |-> r.sent, raised |-> r.raised]
    /\ UNCHANGED <<tx, scope, pc, op, res, wire, arg, rec>>

RelationshipsFind ==
    /\ call.op = "init"
    /\ arg[1].op = "relationships.find"
    /\ \E transaction \in {None, tx}, resp \in Responses :
         LET r == relationships_find(arg[1].pagination, transaction, resp)
         IN  call' = [op |-> "relationships.find",
                      in |-> Some([transaction |-> transaction, resp |-> resp]),
                      pre |-> tx, sent |-> r.sent, raised |-> r.raised]
    /\ UNCHANGED <<tx, scope, pc, op, res, wire, arg, rec>>

Ping ==
    /\ call.op = "init"
    /\ arg[1].op = "ping"
    /\ \E resp \in Responses :
         LET r == ping(resp)
         IN  call' = [op |-> "ping", in |-> Some([resp |-> resp]), pre |-> tx,
                      sent |-> r.sent, raised |-> r.raised, out |-> r.out]
    /\ UNCHANGED <<tx, scope, pc, op, res, wire, arg, rec>>

\* A direct call of the transport.
MakeRequest ==
    /\ call.op = "init"
    /\ arg[1].op = "request"
    /\ \E resp \in Responses :
         LET r == make_request_params(arg[1].method, arg[1].path, Some(EmptyObject),
                                      None, arg[1].params, resp)
         IN  call' = [op |-> "request", in |-> Some([resp |-> resp]), pre |-> tx,
                      sent |-> <<r.request>>, raised |-> r.raised]
    /\ UNCHANGED <<tx, scope, pc, op, res, wire, arg, rec>>

Timestamp ==
    /\ call.op = "init"
    /\ arg[1].op = "timestamp"
    /\ LET r == timestamp(arg[1].id)
       IN  call' = [op |-> "timestamp", in |-> None, pre |-> tx, sent |-> <<>>,
                    raised |-> r.raised, out |-> r.value]
    /\ UNCHANGED <<tx, scope, pc, op, res, wire, arg, rec>>

\* self == other, hash(self), hash(other)
Equality ==
    /\ call.op = "init"
    /\ arg[1].op = "eq"
    /\ call' = [op |-> "eq", in |-> None, pre |-> tx, sent |-> <<>>, raised |-> NoError,
                out |-> [eq |-> record_eq(arg[1].self, arg[1].other),
                         hash_self |-> record_hash(arg[1].self),
                         hash_other |-> IF arg[1].other.v.kind = "record"
                                        THEN record_hash(arg[1].other)
                                        ELSE [by |-> "object", of |-> arg[1].other.obj]]]
    /\ UNCHANGED <<tx, scope, pc, op, res, wire, arg, rec>>

Delete ==
    /\ call.op = "init"
    /\ arg[1].op = "delete"
    /\ \E transaction \in {None, tx}, resp \in Responses :
         LET r == records_delete(arg[1].search_query, transaction, resp)
         IN  call' = [op |-> "delete",
                      in |-> Some([transaction |-> transaction, resp |-> resp]),
                      pre |-> tx, sent |-> r.sent, raised |-> r.raised]
    /\ UNCHANGED <<tx, scope, pc, op, res, wire, arg, rec>>

\* set, update or delete_by_id of one record, by its id.
PerRecord ==
    /\ call.op = "init"
    /\ arg[1].op = "per_record"
    /\ \E transaction \in {None, tx}, resp \in Responses :
         LET r == CASE arg[1].method = "set" ->
                         records_set(arg[1].id, Data, transaction, resp)
                    [] arg[1].method = "update" ->
                         records_update(arg[1].id, Data, transaction, resp)
                    [] arg[1].method = "delete_by_id" ->
                         records_delete_by_id(StrV(arg[1].id), transaction, resp)
         IN  call' = [op |-> "per_record",
                      in |-> Some([transaction |-> transaction, resp |-> resp]),
                      pre |-> tx, sent |-> r.sent, raised |-> r.raised]
    /\ UNCHANGED <<tx, scope, pc, op, res, wire, arg, rec>>

NextCalls ==
    \/ Find
    \/ NewResult
    \/ DeleteById
    \/ Create
    \/ RelationshipsFind
    \/ Ping
    \/ MakeRequest
    \/ Timestamp
    \/ Equality
    \/ Delete
    \/ PerRecord

SpecCalls == InitCalls /\ [][NextCalls]_vars

\* ------------------------------------------------------------------ Record

\* A value of a dict that is a reference to a list object, which whoever holds
\* the reference can change.
Ref(name) == [t |-> "ref", key |-> "", s |-> name, n |-> 0, items |-> <<>>]

\* Keys of the reserved fields: k.startswith("__")
InternalKeys == {"__id", "__label", "__proptypes"}

\* Record.id: the "__id" of the data, ValueError when it is missing or None.
record_id(data) ==
    LET v == Get(data, "__id")
    IN  IF v = None \/ v[1].t = "null"
        THEN [id |-> "", raised |-> MissingId]
        ELSE [id |-> v[1].s, raised |-> NoError]

\* Record.exists(): whether the data holds a non-empty "__id"; no request is made.
record_exists(data) ==
    LET v == Get(data, "__id")
    IN  v # None /\ v[1].t # "null" /\ v[1].s # ""

\* Record.get_data(exclude_internal): a new dict of the same values.
get_data(data, exclude_internal) ==
    IF exclude_internal
    THEN JObj(SelectSeq(data.items, LAMBDA m : m.key \notin InternalKeys))
    ELSE JObj(data.items)

\* Record.to_dict(exclude_internal)
to_dict(data, exclude_internal) == get_data(data, exclude_internal)

\* Record.fields
fields(data) == get_data(data, TRUE)

\* Record.get(key): the value, None when the key is missing.
record_get(data, key) == Get(data, key)

\* Record.set / update / attach / detach / delete: the Resource API call on
\* self.id, which raises before the call when the data has no id.
record_call(m, data, resp) ==
    LET i == record_id(data)
    IN  IF i.raised # NoError THEN Fails(i.raised)
        ELSE CASE m = "set"    -> records_set(Text(i.id), Data, None, resp)
               [] m = "update" -> records_update(Text(i.id), Data, None, resp)
               [] m = "attach" -> attach(StrV(i.id), StrV("a"), None, resp)
               [] m = "detach" -> detach(StrV(i.id), StrV("a"), None, resp)
               [] m = "delete" -> records_delete_by_id(StrV(Text(i.id)), None, resp)

\* mapping[key] = value, by whoever holds the mapping.
dict_set(mapping, key, value) ==
    IF Get(mapping, key) = None
    THEN JObj(Append(mapping.items, K(key, value)))
    ELSE JObj([i \in 1..Len(mapping.items) |->
                 IF mapping.items[i].key = key THEN K(key, value) ELSE mapping.items[i]])

\* del mapping[key]
dict_del(mapping, key) == JObj(SelectSeq(mapping.items, LAMBDA m : m.key # key))

\* The data a Record may wrap: none, with or without an id, with a list value.
RecordDatas ==
    {JObj(<<>>),
     JObj(<<K("name", JStr("v"))>>),
     JObj(<<K("__id", JNull), K("name", JStr("v"))>>),
     JObj(<<K("__id", JStr("")), K("name", JStr("v"))>>),
     JObj(<<K("__id", JStr("r1")), K("__label", JStr("USER")), K("name", JStr("v"))>>),
     JObj(<<K("__id", JStr("r1")), K("__label", JStr("USER")), K("name", JStr("v")),
            K("tags", Ref("tags"))>>)}

\* A caller holds a Record: its data, the list object its "tags" refers to, the
\* mapping it last handed out, and whether the server has deleted the record.
InitRecord ==
    /\ tx = None
    /\ scope = "outside"
    /\ call = [op |-> "init", in |-> None, pre |-> None, sent |-> <<>>, raised |-> NoError]
    /\ pc = <<>>
    /\ op = <<>>
    /\ res = <<>>
    /\ wire = <<>>
    /\ arg = None
    /\ rec \in {Some([data |-> d, tags |-> <<JStr("a")>>, out |-> None, deleted |-> FALSE]) :
                  d \in RecordDatas}

RecordCall ==
    /\ \E m \in {"set", "update", "attach", "detach", "delete"}, resp \in Responses :
         LET r == record_call(m, rec[1].data, resp)
         IN  /\ call' = [op |-> m, in |-> Some([resp |-> resp]), pre |-> tx,
                         sent |-> r.sent, raised |-> r.raised]
             /\ rec' = IF m = "delete" /\ r.sent # <<>> /\ r.raised = NoError
                       THEN Some([rec[1] EXCEPT !.deleted = TRUE])
                       ELSE rec
    /\ UNCHANGED <<tx, scope, pc, op, res, wire, arg>>

RecordGet ==
    /\ \E key \in {"__id", "name", "tags", "email"} :
         call' = [op |-> "get", in |-> Some([key |-> key]), pre |-> tx, sent |-> <<>>,
                  raised |-> NoError, out |-> record_get(rec[1].data, key)]
    /\ UNCHANGED <<tx, scope, pc, op, res, wire, arg, rec>>

\* get_data(), to_dict() or fields: the caller keeps the mapping returned.
RecordGetData ==
    /\ \E m \in {"get_data", "to_dict", "fields"}, exclude_internal \in BOOLEAN :
         LET mapping == CASE m = "get_data" -> get_data(rec[1].data, exclude_internal)
                          [] m = "to_dict"  -> to_dict(rec[1].data, exclude_internal)
                          [] m = "fields"   -> fields(rec[1].data)
         IN  /\ call' = [op |-> m, in |-> Some([exclude_internal |-> exclude_internal]),
                         pre |-> tx, sent |-> <<>>, raised |-> NoError, out |-> Some(mapping)]
             /\ rec' = Some([rec[1] EXCEPT !.out = Some(mapping)])
    /\ UNCHANGED <<tx, scope, pc, op, res, wire, arg>>

RecordExists ==
    /\ call' = [op |-> "exists", in |-> None, pre |-> tx, sent |-> <<>>, raised |-> NoError,
                out |-> Some(record_exists(rec[1].data))]
    /\ UNCHANGED <<tx, scope, pc, op, res, wire, arg, rec>>

\* The caller sets or deletes a key of the mapping it was handed.
ModifyReturned ==
    /\ rec[1].out # None
    /\ \E mapping \in {dict_set(rec[1].out[1], "name", JStr("w")),
                       dict_set(rec[1].out[1], "__id", JStr("r2")),
                       dict_del(rec[1].out[1], "name")} :
         rec' = Some([rec[1] EXCEPT !.out = Some(mapping)])
    /\ call' = [op |-> "modify", in |-> None, pre |-> tx, sent |-> <<>>, raised |-> NoError]
    /\ UNCHANGED <<tx, scope, pc, op, res, wire, arg>>

\* The caller appends to the list it reaches through the mapping it was
\* handed: mapping["tags"].append("b").
AppendThroughReturned ==
    /\ rec[1].out # None
    /\ Get(rec[1].out[1], "tags") = Some(Ref("tags"))
    /\ Len(rec[1].tags) <= MaxLen
    /\ rec' = Some([rec[1] EXCEPT !.tags = Append(@, JStr("b"))])
    /\ call' = [op |-> "append", in |-> None, pre |-> tx, sent |-> <<>>, raised |-> NoError]
    /\ UNCHANGED <<tx, scope, pc, op, res, wire, arg>>

NextRecord ==
    \/ RecordCall
    \/ RecordGet
    \/ RecordGetData
    \/ RecordExists
    \/ ModifyReturned
    \/ AppendThroughReturned

SpecRecord == InitRecord /\ [][NextRecord]_vars

\* ------------------------------------------------------------------ two callers, one handle

Callers == {1, 2}

\* Two threads share one OPEN handle. commit()/rollback() take three steps:
\* the test of the flags, the blocking request, the assignment of the flag.
InitRace ==
    /\ tx \in {Some(Transaction(id)) : id \in TxIds}
    /\ scope = "outside"
    /\ call = [op |-> "init", in |-> None, pre |-> None, sent |-> <<>>, raised |-> NoError]
    /\ pc = [c \in Callers |-> "idle"]
    /\ op = [c \in Callers |-> "none"]
    /\ res = [c \in Callers |-> NoError]
    /\ wire = <<>>
    /\ rec = None
    /\ arg = None

Check(c) ==
    /\ pc[c] = "idle"
    /\ \E m \in {"commit", "rollback"} :
         /\ op' = [op EXCEPT ![c] = m]
         /\ IF completed(tx[1])
            THEN /\ pc' = [pc EXCEPT ![c] = "done"]
                 /\ res' = [res EXCEPT ![c] = AlreadyCompleted]
            ELSE /\ pc' = [pc EXCEPT ![c] = "request"]
                 /\ res' = res
    /\ UNCHANGED <<tx, scope, call, wire, arg, rec>>

\* `self.client.transactions._commit(self.id)` / `_rollback(self.id)`
Request(c) ==
    /\ pc[c] = "request"
    /\ \E resp \in Responses :
         LET r == IF op[c] = "commit" THEN tx_commit(tx[1].id, resp)
                  ELSE tx_rollback(tx[1].id, resp)
         IN  /\ wire' = Append(wire, r.request)
             /\ IF r.raised = NoError
                THEN /\ pc' = [pc EXCEPT ![c] = "assign"]
                     /\ res' = res
                ELSE /\ pc' = [pc EXCEPT ![c] = "done"]
                     /\ res' = [res EXCEPT ![c] = r.raised]
    /\ UNCHANGED <<tx, scope, call, op, arg, rec>>

\* `self._committed = True` / `self._rolled_back = True`
Assign(c) ==
    /\ pc[c] = "assign"
    /\ tx' = IF op[c] = "commit"
             THEN Some([tx[1] EXCEPT !.committed = TRUE])
             ELSE Some([tx[1] EXCEPT !.rolled_back = TRUE])
    /\ pc' = [pc EXCEPT ![c] = "done"]
    /\ res' = [res EXCEPT ![c] = NoError]
    /\ UNCHANGED <<scope, call, op, wire, arg, rec>>

NextRace == \E c \in Callers : Check(c) \/ Request(c) \/ Assign(c)

SpecRace == InitRace /\ [][NextRace]_vars

\* ------------------------------------------------------------------ properties

CommitRequest(id) ==
    [method |-> "POST", path |-> <<"tx", id, "commit">>, query |-> None,
     body |-> Some(EmptyObject), txid |-> None]

RollbackRequest(id) ==
    [method |-> "POST", path |-> <<"tx", id, "rollback">>, query |-> None,
     body |-> Some(EmptyObject), txid |-> None]

Finalizing == call.op \in {"commit", "rollback"}

ExitOf(exc, state) ==
    call.op = "exit" /\ call.in = Some(exc) /\ State(call.pre[1]) = state

\* C1: with a single caller, commit() and rollback() succeed only on an OPEN
\* handle and leave it finalized; a finalized handle stays as it is under every
\* later call on it, and every commit() or rollback() on a finalized handle
\* fails with "Transaction already completed".
C1_CommitRollbackOnce ==
    /\ [](Finalizing =>
            /\ (call.raised = NoError =>
                    State(call.pre[1]) = "OPEN" /\ completed(tx[1]))
            /\ (State(call.pre[1]) # "OPEN" => call.raised = AlreadyCompleted))
    /\ [][(tx # None /\ State(tx[1]) # "OPEN" /\ call'.op # "begin") => tx' = tx]_vars

C1_Witness ==
    /\ call.op = "rollback"
    /\ State(call.pre[1]) = "COMMITTED"
    /\ call.raised = AlreadyCompleted

\* C2: a scope exit on a handle that is already COMMITTED or ROLLED_BACK sends
\* no request and raises no "Transaction already completed" error, whether or
\* not an error propagates out of the scope.
C2_ExitOfFinalizedIsSilent ==
    (call.op = "exit" /\ State(call.pre[1]) # "OPEN") =>
        (call.sent = <<>> /\ call.raised # AlreadyCompleted)

\* C3 as stated: a normal scope exit on an OPEN handle sends exactly one commit
\* request for the handle's id and the handle becomes COMMITTED.
C3_NormalExitCommits ==
    ExitOf(FALSE, "OPEN") =>
        (call.sent = <<CommitRequest(call.pre[1].id)>> /\ State(tx[1]) = "COMMITTED")

\* C3 as amended: a normal scope exit on an OPEN handle sends exactly one commit
\* request for the handle's id and no rollback request; the handle becomes
\* COMMITTED when that request succeeds and is left OPEN, the error propagating,
\* when it fails.
C3_NormalExitCommitsIfSent ==
    ExitOf(FALSE, "OPEN") =>
        /\ call.sent = <<CommitRequest(call.pre[1].id)>>
        /\ (call.raised = NoError => tx = Some([call.pre[1] EXCEPT !.committed = TRUE]))
        /\ (call.raised # NoError => tx = call.pre)

C3_Witness == ExitOf(FALSE, "OPEN") /\ State(tx[1]) = "COMMITTED"

\* C4 as stated: a scope exit with an error propagating, on an OPEN handle, sends
\* exactly one rollback request for the handle's id and the handle becomes
\* ROLLED_BACK.
C4_ErrorExitRollsBack ==
    ExitOf(TRUE, "OPEN") =>
        (call.sent = <<RollbackRequest(call.pre[1].id)>> /\ State(tx[1]) = "ROLLED_BACK")

\* C4 as amended: a scope exit with an error propagating, on an OPEN handle,
\* sends exactly one rollback request for the handle's id and no commit request;
\* the handle becomes ROLLED_BACK when that request succeeds and is left OPEN
\* when it fails.
C4_ErrorExitRollsBackIfSent ==
    ExitOf(TRUE, "OPEN") =>
        /\ call.sent = <<RollbackRequest(call.pre[1].id)>>
        /\ (call.raised = NoError => tx = Some([call.pre[1] EXCEPT !.rolled_back = TRUE]))
        /\ (call.raised # NoError => tx = call.pre)

C4_Witness == ExitOf(TRUE, "OPEN") /\ State(tx[1]) = "ROLLED_BACK"

\* C5: commit() or rollback() on a COMMITTED or ROLLED_BACK handle fails before
\* any request is sent: nothing reaches the transport and the handle is unchanged.
C5_FailsBeforeAnyRequest ==
    (Finalizing /\ State(call.pre[1]) # "OPEN") =>
        (call.raised # NoError /\ call.sent = <<>> /\ tx = call.pre)

C5_Witness ==
    /\ call.op = "commit"
    /\ State(call.pre[1]) = "ROLLED_BACK"
    /\ call.sent = <<>>
    /\ tx = call.pre

Succeeded(c) == pc[c] = "done" /\ res[c] = NoError

\* C6 as stated: of two concurrent commit()/rollback() calls on one OPEN handle,
\* never both succeed.
C6_NeverBothSucceed == ~(\A c \in Callers : Succeeded(c))

\* C6 as amended: a commit()/rollback() call that tests the flags after another
\* call on the handle has set its flag fails with "Transaction already
\* completed", sends no request and leaves the handle alone. (Calls that both
\* test the flags before either flag is set both send their request.)
C6_LateCheckFails ==
    [][\A c \in Callers :
          (pc[c] = "idle" /\ pc'[c] # "idle" /\ State(tx[1]) # "OPEN") =>
              /\ pc'[c] = "done"
              /\ res'[c] = AlreadyCompleted
              /\ wire' = wire
              /\ tx' = tx]_vars

C6_Witness ==
    \E c, d \in Callers :
        /\ Succeeded(c)
        /\ pc[d] = "done"
        /\ res[d] = AlreadyCompleted
        /\ Len(wire) = 1

\* C7: a Resource API call given a Transaction handle, in whatever state the
\* handle is, sends its request with the header X-Transaction-Id set to the
\* handle's id; given no transaction it sends its request without that header.
C7_HeaderInEveryState ==
    call.op = "api" =>
        /\ Len(call.sent) = 1
        /\ call.sent[1].txid =
             (IF call.in[1].transaction = None THEN None
              ELSE Some(call.in[1].transaction[1].id))

C7_Witness ==
    /\ call.op = "api"
    /\ call.in[1].transaction # None
    /\ State(call.in[1].transaction[1]) = "ROLLED_BACK"
    /\ call.sent[1].txid = Some(call.in[1].transaction[1].id)

\* C8: begin(ttl) sends one create-transaction request whose body ttl is the
\* ttl passed, whatever it is, and 5000 when none is passed.
C8_TtlAsPassed ==
    call.op = "begin" =>
        /\ Len(call.sent) = 1
        /\ call.sent[1].method = "POST"
        /\ call.sent[1].path = <<"tx">>
        /\ call.sent[1].body[1].ttl = (IF call.in = None THEN 5000 ELSE call.in[1])

Relating == call.op \in {"attach", "detach"}

\* A target that is none of: string, list, map with "__id", Record; or a list
\* holding an entry that is no string, map or Record.
Malformed(t) ==
    \/ t.kind = "int"
    \/ t.kind = "dict" /\ t.id = None
    \/ t.kind = "list" /\ \E i \in 1..Len(t.items) : t.items[i].kind = "int"

\* C9: attach and detach given a malformed target reference fail with a
\* validation error and send no request.
C9_MalformedTargetRejected ==
    (Relating /\ Malformed(arg[1].target)) =>
        (call.raised.type = "ValueError" /\ call.sent = <<>>)

ValidItems(items, kind) ==
    \A i \in 1..Len(items) : items[i].kind = kind /\ items[i].id # None

\* The six valid shapes: a string id, a map with "__id", a Record, and a list
\* of each.
ValidTarget(t) ==
    \/ t.kind \in {"str", "dict", "record"} /\ t.id # None
    \/ t.kind = "list" /\ \E k \in {"str", "dict", "record"} : ValidItems(t.items, k)

\* The identifiers a valid target denotes, in the order given.
Denoted(t) ==
    IF t.kind = "list" THEN [i \in 1..Len(t.items) |-> t.items[i].id[1]]
    ELSE <<t.id[1]>>

\* C10: for every valid target shape, the targetIds attach/detach send are the
\* identifiers the target denotes, in the order given.
C10_SameIdsForEveryShape ==
    (Relating /\ ValidTarget(arg[1].target) /\ arg[1].source.kind # "int") =>
        /\ Len(call.sent) = 1
        /\ call.sent[1].body[1].targetIds = Denoted(arg[1].target)

\* The rows of the response find was given, none when "data" is lacking.
RowsGiven == IF arg[1].payload.data = None THEN <<>> ELSE arg[1].payload.data[1]

FindFails == call.in[1].resp # "ok" \/ ~Wrappable(RowsGiven)

\* C11: records.find never propagates a failure: whenever the request fails
\* (non-2xx response, connection failure, undecodable response) or a row of the
\* response cannot be wrapped, it raises nothing and returns a SearchResult
\* with no items and total 0.
C11_FindNeverPropagates ==
    call.op = "find" =>
        /\ call.raised = NoError
        /\ FindFails => (call.out.result.data = <<>> /\ call.out.total = 0)

C11_Witness ==
    /\ call.op = "find"
    /\ call.in[1].resp = "http_nonjson"
    /\ call.raised = NoError
    /\ call.out.total = 0

\* The query find was given, the empty object when it was given none.
QueryGiven ==
    IF arg[1].search_query = None THEN JObj(<<>>) ELSE arg[1].search_query[1]

\* C12: records.find posts the caller's query unchanged to the search endpoint
\* (under the record when a record id is given): the JSON text of the body reads
\* back as the query, with its structure, keys, operator names and sequence
\* order; an absent query is sent as the empty object; and the call leaves the
\* caller's query as it was.
C12_QuerySentVerbatim ==
    /\ [](call.op = "find" =>
            /\ Len(call.sent) = 1
            /\ call.sent[1].method = "POST"
            /\ call.sent[1].path = (IF call.in[1].record_id = None
                                    THEN <<"records", "search">>
                                    ELSE <<"records", call.in[1].record_id[1], "search">>)
            /\ call.sent[1].body = Some(QueryGiven)
            /\ ParseValue(call.text) = [val |-> QueryGiven, rest |-> <<>>])
    /\ [][call'.op = "find" => arg' = arg]_vars

C12_Witness ==
    /\ call.op = "find"
    /\ LET where == Get(QueryGiven, "where")
       IN  /\ where # None
           /\ Get(where[1], "$or") # None
           /\ Get(Get(where[1], "$or")[1].items[2], "COMPANY") # None
    /\ json_loads(call.text) = QueryGiven

\* The skip of the query given: 0 when it has none.
SkipGiven ==
    LET v == Get(QueryGiven, "skip")
    IN  IF v = None \/ v[1].t # "num" THEN 0 ELSE v[1].n

\* The limit of the query given, if it has one.
LimitGiven ==
    LET v == Get(QueryGiven, "limit")
    IN  IF v = None \/ v[1].t # "num" THEN None ELSE Some(v[1].n)

\* C13: the SearchResult returned by records.find carries the query find was
\* given: its skip is the query's skip (0 when absent), its limit is the query's
\* limit, and its search_query holds the query's skip and limit.
C13_ResultCarriesQuery ==
    call.op = "find" =>
        /\ call.out.skip = SkipGiven
        /\ call.out.limit = LimitGiven
        /\ Get(call.out.result.search_query, "skip") = Get(QueryGiven, "skip")
        /\ Get(call.out.result.search_query, "limit") = Get(QueryGiven, "limit")

\* The total given to the constructor, the length of the data when none is.
TotalGiven ==
    IF arg[1].total = None THEN Len(arg[1].data) ELSE arg[1].total[1]

\* C14: for every SearchResult, whatever data, total and query it was made of,
\* has_more is (total > skip + len(data)), skip being the query's skip or 0 when
\* the query has none, and total the total given or len(data) when none is.
C14_HasMore ==
    call.op = "result" =>
        /\ call.out.has_more = (call.out.total > SkipGiven + Len(arg[1].data))
        /\ call.out.has_more = (TotalGiven > SkipGiven + Len(arg[1].data))

C14_Witness ==
    /\ call.op = "result"
    /\ arg[1].total = Some(50)
    /\ SkipGiven = 10
    /\ Len(arg[1].data) = 5
    /\ call.out.has_more

HeaderGiven ==
    IF call.in[1].transaction = None THEN None ELSE Some(call.in[1].transaction[1].id)

\* C16: delete_by_id given a list of ids of any length (0, 1, 1000, 1001, 1500)
\* sends exactly one request, POST /records/delete with the body
\* {limit: 1000, where: {$id: {$in: the whole list in order}}}, and no DELETE;
\* given a single string id it sends exactly one DELETE /records/{id}.
C16_DeleteByIdOneRequest ==
    call.op = "delete_by_id" =>
        call.sent =
            IF arg[1].id_or_ids.kind = "list"
            THEN <<[method |-> "POST", path |-> <<"records", "delete">>, query |-> None,
                    body |-> Some([limit |-> 1000,
                                   where |-> ("$id" :> ("$in" :> arg[1].id_or_ids.items))]),
                    txid |-> HeaderGiven]>>
            ELSE <<[method |-> "DELETE", path |-> <<"records">> \o arg[1].id_or_ids.id[1],
                    query |-> None, body |-> None, txid |-> HeaderGiven]>>

C16_Witness ==
    /\ call.op = "delete_by_id"
    /\ arg[1].id_or_ids.kind = "list"
    /\ Len(arg[1].id_or_ids.items) = 1500
    /\ Len(call.sent) = 1
    /\ Len(call.sent[1].body[1].where["$id"]["$in"]) = 1500

\* C17: ping() never raises: for every transport outcome it returns a boolean,
\* true when the request succeeds and false otherwise.
C17_PingNeverRaises ==
    call.op = "ping" =>
        /\ call.raised = NoError
        /\ call.out = Some(call.in[1].resp = "ok")

\* C18: every failed request, whatever the failure, reaches the caller of
\* _make_request as a RushDBError carrying a message; a request that succeeds
\* raises nothing.
C18_EveryFailureIsRushDBError ==
    call.op = "request" =>
        IF call.in[1].resp = "ok"
        THEN call.raised = NoError
        ELSE call.raised.type = "RushDBError" /\ call.raised.msg # ""

\* C19: in the body sent by create, create_many and import_csv, each of the
\* options returnResult and suggestTypes that the caller did not specify is true.
C19_OptionsDefaultTrue ==
    call.op \in {"create", "create_many", "import_csv"} =>
        \A k \in {"returnResult", "suggestTypes"} :
            (arg[1].options = None \/ arg[1].options[1][k] = None) =>
                call.sent[1].body[1].options[k] = Some(TRUE)

\* The query string that carries the pagination given, if it holds any.
PaginationGiven ==
    LET p == arg[1].pagination
        pairs == IF p = None THEN <<>>
                 ELSE (IF p[1].limit # None
                       THEN <<<<"limit", ToString(p[1].limit[1])>>>> ELSE <<>>)
                      \o (IF p[1].skip # None
                          THEN <<<<"skip", ToString(p[1].skip[1])>>>> ELSE <<>>)
    IN  IF pairs = <<>> THEN None
        ELSE Some(<<pairs[1][1], "=", pairs[1][2]>>
                  \o (IF Len(pairs) > 1
                      THEN <<"&", pairs[2][1], "=", pairs[2][2]>> ELSE <<>>))

\* C20: RelationsAPI.find sends one POST whose URL path is /relationships/search,
\* whose query string carries the limit and skip of the pagination given, and
\* whose body is the search query; without pagination it has no query string.
C20_PaginationInQueryString ==
    call.op = "relationships.find" =>
        /\ Len(call.sent) = 1
        /\ call.sent[1].method = "POST"
        /\ call.sent[1].path = <<"relationships", "search">>
        /\ call.sent[1].query = PaginationGiven
        /\ call.sent[1].body = Some(EmptyObject)

\* The Record has an identifier, as every Record created by the API has.
HasIdentifier ==
    LET v == Get(rec[1].data, "__id")
    IN  v # None /\ v[1].t = "str" /\ v[1].s # ""

\* C21: Record.exists() returns True for a Record with an identifier that has
\* not been deleted, False for a Record with no identifier, and False once a
\* delete() of the Record has completed successfully.
C21_ExistsUntilDeleted ==
    call.op = "exists" => call.out = Some(HasIdentifier /\ ~rec[1].deleted)

\* What a Record wraps: its data with every reference replaced by the list it
\* refers to.
Wrapped(r) ==
    JObj([i \in 1..Len(r.data.items) |->
            IF r.data.items[i].t = "ref"
            THEN K(r.data.items[i].key, JArr(r.tags))
            ELSE r.data.items[i]])

\* C28: a Record is an immutable wrapper: no operation of the Record (set,
\* update, attach, detach, delete, get, get_data, to_dict, fields, exists) and
\* no change made to a mapping returned by get_data / to_dict / fields changes
\* what the Record wraps.
C28_WrapperImmutable == [][Wrapped(rec'[1]) = Wrapped(rec[1])]_vars

\* 16 to the power n.
RECURSIVE Pow16(_)
Pow16(n) == IF n = 0 THEN 1 ELSE 16 * Pow16(n - 1)

\* The integer a string of hexadecimal digits denotes: digit i of n digits
\* counts 16^(n - i) times.
RECURSIVE HexNumber(_, _)
HexNumber(h, i) ==
    IF i > Len(h) THEN 0
    ELSE HexVal(h[i]) * Pow16(Len(h) - i) + HexNumber(h, i + 1)

\* C22: for every record id of hyphen-separated segments of hexadecimal digits,
\* Record.timestamp raises nothing and is the integer denoted by the first
\* segment followed by the first four digits of the second segment (all of it
\* when it has fewer).
C22_TimestampFromId ==
    call.op = "timestamp" =>
        /\ call.raised = NoError
        /\ call.out = HexNumber(arg[1].head \o Prefix(arg[1].tail, 4), 1)

C22_Witness ==
    /\ call.op = "timestamp"
    /\ arg[1].head = <<"a", "F">>
    /\ arg[1].tail = <<"F", "0", "a", "0", "F">>
    /\ Len(arg[1].id[1]) > 8
    /\ call.out = 11530400

\* A Record that has an identifier and another that has the same one.
SameIdentifier ==
    /\ arg[1].other.v.kind = "record"
    /\ arg[1].self.v.id # None
    /\ arg[1].self.v.id = arg[1].other.v.id

\* C23: two Records compare equal exactly when they carry the same identifier,
\* a Record never equals a non-Record, every Record compares equal to itself,
\* and Records that compare equal have equal hashes.
C23_IdentityIsIdentifier ==
    call.op = "eq" =>
        /\ call.out.eq = (SameIdentifier \/ arg[1].self = arg[1].other)
        /\ call.out.eq => call.out.hash_self = call.out.hash_other

FailedFinalizing ==
    Finalizing /\ State(call.pre[1]) = "OPEN" /\ call.raised # NoError

\* C25: when the request of commit() or rollback() on an OPEN handle fails, the
\* transport's error propagates and the handle stays OPEN, both flags as they
\* were; the next commit() or rollback() on the handle is not refused and sends
\* a new request.
C25_FailedRequestLeavesOpen ==
    /\ [](FailedFinalizing =>
            /\ Len(call.sent) = 1
            /\ call.raised # AlreadyCompleted
            /\ tx = call.pre)
    /\ [][(FailedFinalizing /\ call'.op \in {"commit", "rollback"}) =>
            /\ call'.pre = call.pre
            /\ call'.raised # AlreadyCompleted
            /\ call'.sent = <<IF call'.op = "commit"
                              THEN CommitRequest(call.pre[1].id)
                              ELSE RollbackRequest(call.pre[1].id)>>]_vars

C25_Witness ==
    /\ call.op = "commit"
    /\ State(call.pre[1]) = "OPEN"
    /\ call.raised.type = "RushDBError"
    /\ State(tx[1]) = "OPEN"

\* C26: for a handle used by a single caller, the committed and rolled-back
\* flags are never both true, and every call on the handle either leaves it as
\* it is or takes it from OPEN to COMMITTED or from OPEN to ROLLED_BACK: a flag
\* once set is never cleared.
C26_OneWayTransitions ==
    /\ [](tx # None => ~(tx[1].committed /\ tx[1].rolled_back))
    /\ [][(tx # None /\ call'.op # "begin") =>
            \/ tx' = tx
            \/ /\ State(tx[1]) = "OPEN"
               /\ \/ tx' = Some([tx[1] EXCEPT !.committed = TRUE])
                  \/ tx' = Some([tx[1] EXCEPT !.rolled_back = TRUE])]_vars

C26_Witness ==
    /\ call.op = "exit"
    /\ call.in = Some(TRUE)
    /\ State(call.pre[1]) = "COMMITTED"
    /\ tx = call.pre

\* C27: scope exit never suppresses an error raised inside the scope: whenever
\* an error propagates out of the body, in every state of the handle an error
\* reaches the caller after scope exit, the error of the body or the one the
\* rollback attempt raised.
C27_ExitNeverSuppresses ==
    (call.op = "exit" /\ call.in = Some(TRUE)) =>
        /\ call.out # NoError
        /\ call.out \in {BodyError, call.raised}

C27_Witness ==
    /\ ExitOf(TRUE, "ROLLED_BACK")
    /\ call.sent = <<>>
    /\ call.out = BodyError

\* C29: records.delete with no filter (no search query, or an empty one) is not
\* turned down by the client: it sends POST /records/delete with the empty
\* object as body; with a filter it sends the filter.
C29_UnfilteredDeleteIsSent ==
    call.op = "delete" =>
        /\ call.raised = RaisedBy(call.in[1].resp)
        /\ call.sent = <<[method |-> "POST", path |-> <<"records", "delete">>,
                          query |-> None, body |-> Some(QueryGiven),
                          txid |-> HeaderGiven]>>

C29_Witness ==
    /\ call.op = "delete"
    /\ arg[1].search_query = None
    /\ call.in[1].resp = "ok"
    /\ call.raised = NoError
    /\ call.sent[1].body = Some(JObj(<<>>))

\* C30: for every single string id, the empty string and ids containing "/"
\* included, set, update and delete_by_id send one request whose URL path has
\* exactly the two segments "records" and the percent-encoded id.
C30_PathIsRecordsThenId ==
    call.op = "per_record" =>
        /\ Len(call.sent) = 1
        /\ call.sent[1].path = <<"records", quote(arg[1].id)>>

====
